---- MODULE Spec2Model ----
\* Model of smbclient/client.py: the SMB class (dual-node session manager and
\* the guarded file operations), as a state machine over the callers' program
\* positions and the object's fields.
EXTENDS Integers, Sequences, FiniteSets, TLC

VARIABLES
    cfg,                 \* self.cfg: reconnect_attempts and the two hosts
    masterUp, backupUp,  \* environment: is the endpoint connectable now
    current_connection,  \* self.current_connection
    sessOk,              \* environment: is the bound connection still usable
    service_name,        \* self.service_name
    leaked,              \* a connection was opened and dropped without close()
    callers,             \* the threads that use the object
    methods,             \* the public methods the callers invoke
    constructed,         \* __init__ has returned
    pc,                  \* per caller: position in the code
    op,                  \* per caller: the public method being executed
    inLs,                \* per caller: check_file_in_directory is inside self.ls
    try_count,           \* per caller: connect()'s local try_count
    connRet,             \* per caller: where connect() returns to
    chkBranch,           \* per caller: branch of check_connection taken
    chkRet,              \* per caller: value returned by check_connection
    log,                 \* per caller: attempts of the running connect cycle
    verified,            \* per caller: the bound session was verified in this invocation
    calls,               \* per caller: delegated protocol calls of this invocation
    args,                \* per caller: arguments of the running method
    lastRet              \* the call that returned in the last step, if any

vars == <<cfg, masterUp, backupUp, current_connection, sessOk, service_name,
          leaked, callers, methods, constructed, pc, op, inLs, try_count, connRet, chkBranch,
          chkRet, log, verified, calls, args, lastRet>>

\* ---------------------------------------------------------------- bounds
MaxAttempts == 3      \* reconnect_attempts ranges over 1..MaxAttempts
MaxTry == 5           \* connect attempts modelled per connect cycle
MaxFiles == 3         \* entries of a directory listing
MaxTime == 3          \* create_time ranges over 1..MaxTime
MaxLen == 2           \* bytes of a remote file

Threads == {1, 2}
None == [node |-> "none", remote_name |-> ""]

\* ---------------------------------------------------------------- configuration
MasterShare == "mshare"
BackupShare == "bshare"
MasterHosts == {"srv1"}
BackupHosts == {"srv2", "SRV1"}

\* str.upper() on the host names in use
Upper(s) ==
    CASE s = "srv1" -> "SRV1"
      [] s = "SRV1" -> "SRV1"
      [] s = "srv2" -> "SRV2"
      [] OTHER -> s

HostOf(node) == IF node = "master" THEN cfg.mhost ELSE cfg.bhost
ShareOf(node) == IF node = "master" THEN MasterShare ELSE BackupShare
UpOf(node) == IF node = "master" THEN masterUp ELSE backupUp

\* ---------------------------------------------------------------- ls: sort and project
Reverse(s) == [i \in 1..Len(s) |-> s[Len(s) + 1 - i]]

\* insert entry x behind every entry whose create_time is not greater (stable)
RECURSIVE InsertByTime(_, _)
InsertByTime(x, s) ==
    IF s = <<>> THEN <<x>>
    ELSE IF x.create_time < Head(s).create_time THEN <<x>> \o s
    ELSE <<Head(s)>> \o InsertByTime(x, Tail(s))

\* list.sort(key=create_time): stable, ascending
RECURSIVE StableSort(_)
StableSort(s) ==
    IF s = <<>> THEN <<>>
    ELSE InsertByTime(s[Len(s)], StableSort(SubSeq(s, 1, Len(s) - 1)))

\* a descending sort made by reversing the ascending result
SortFiles_ReverseAfter(files_list, reverse) ==
    IF reverse THEN Reverse(StableSort(files_list))
    ELSE StableSort(files_list)

\* list.sort(key=..., reverse=r): the list is reversed, sorted stably and
\* reversed again, so equal keys keep their order of arrival
SortFiles(files_list, reverse) ==
    IF reverse THEN Reverse(StableSort(Reverse(files_list)))
    ELSE StableSort(files_list)

\* lines 122-124 of ls
Ls(files_list, sort_order) ==
    LET sorted == SortFiles(files_list, sort_order = "desc")
    IN  [i \in 1..Len(sorted) |-> sorted[i].filename]

\* a membership test that looks at the newest entry only
FileInLs_NewestOnly(files_list, file_name) ==
    /\ Len(Ls(files_list, "desc")) > 0
    /\ Ls(files_list, "desc")[1] = file_name

\* file_name in self.ls(dir_path): ls with its default arguments
FileInLs(files_list, file_name) ==
    \E i \in 1..Len(Ls(files_list, "desc")) : Ls(files_list, "desc")[i] = file_name

\* the directory listings listPath can return: distinct file names
FileNames == 1..MaxFiles
Entries == [filename : FileNames, create_time : 1..MaxTime]
Listings ==
    UNION {{s \in [1..n -> Entries] :
              \A i, j \in 1..n : i # j => s[i].filename # s[j].filename}
           : n \in 0..MaxFiles}
SortOrders == {"desc", "asc"}

\* ---------------------------------------------------------------- the callers' frames
Ops == {"check", "ls", "exists", "upload", "download", "delete", "move"}
BoolOps == {"upload", "delete", "move"}      \* except: log, return False
NoArgs == [file_name |-> 0, sort_order |-> "desc"]
NoBuffer == [present |-> FALSE, file_len |-> 0, len |-> 0, pos |-> 0]
NoRet == [caller |-> 0, op |-> "none", value |-> "none", files |-> <<>>,
          listing |-> <<>>, file_name |-> 0, sort_order |-> "desc",
          calls |-> 0, fail |-> "none", buffer |-> NoBuffer]

\* lines 166-168: a fresh TemporaryFile, retrieveFile writes the n bytes of
\* the remote file into it, which leaves the cursor behind them, seek(0)
RetrieveInto(n) == [present |-> TRUE, file_len |-> n, len |-> n, pos |-> n]
Seek0(buf) == [buf EXCEPT !.pos = 0]
BufferOf(o, out, n) ==
    IF o = "download" /\ out = "ok" THEN Seek0(RetrieveInto(n)) ELSE NoBuffer

\* __init__ (lines 33-37): the fields are set and connect() is entered by caller 1
InitFields ==
    /\ cfg \in [R : 1..MaxAttempts, mhost : MasterHosts, bhost : BackupHosts]
    /\ masterUp \in BOOLEAN
    /\ backupUp \in BOOLEAN
    /\ current_connection = None
    /\ sessOk = FALSE
    /\ service_name = ""
    /\ leaked = FALSE
    /\ constructed = FALSE
    /\ pc = [t \in Threads |-> IF t = 1 THEN "conn_loop" ELSE "idle"]
    /\ op = [t \in Threads |-> IF t = 1 THEN "init" ELSE "none"]
    /\ inLs = [t \in Threads |-> FALSE]
    /\ try_count = [t \in Threads |-> IF t = 1 THEN 1 ELSE 0]
    /\ connRet = [t \in Threads |-> IF t = 1 THEN "init" ELSE "none"]
    /\ chkBranch = [t \in Threads |-> "none"]
    /\ chkRet = [t \in Threads |-> "none"]
    /\ log = [t \in Threads |-> <<>>]
    /\ verified = [t \in Threads |-> FALSE]
    /\ calls = [t \in Threads |-> 0]
    /\ args = [t \in Threads |-> NoArgs]
    /\ lastRet = NoRet

Init == InitFields /\ callers = {1} /\ methods = Ops
InitConc == InitFields /\ callers = Threads /\ methods = {"check", "upload"}

\* the frame of a method is dropped when it returns or raises to the caller
Return(t, value, files, listing, fail, ncalls, buffer) ==
    /\ lastRet' = [caller |-> t, op |-> op[t], value |-> value, files |-> files,
                   listing |-> listing, file_name |-> args[t].file_name,
                   sort_order |-> args[t].sort_order, calls |-> ncalls,
                   fail |-> fail, buffer |-> buffer]
    /\ pc' = [pc EXCEPT ![t] = "idle"]
    /\ op' = [op EXCEPT ![t] = "none"]
    /\ inLs' = [inLs EXCEPT ![t] = FALSE]
    /\ try_count' = [try_count EXCEPT ![t] = 0]
    /\ connRet' = [connRet EXCEPT ![t] = "none"]
    /\ chkBranch' = [chkBranch EXCEPT ![t] = "none"]
    /\ chkRet' = [chkRet EXCEPT ![t] = "none"]
    /\ log' = [log EXCEPT ![t] = <<>>]
    /\ verified' = [verified EXCEPT ![t] = FALSE]
    /\ calls' = [calls EXCEPT ![t] = 0]
    /\ args' = [args EXCEPT ![t] = NoArgs]

\* an exception that leaves check_connection or the delegated call: upload,
\* delete and move catch it and return False, download logs and re-raises,
\* ls, check_file_in_directory and check_connection let it through
Raise(t, fail, ncalls) ==
    Return(t, IF op[t] \in BoolOps THEN "False" ELSE "raise", <<>>, <<>>, fail, ncalls,
           NoBuffer)

\* entry of connect(), line 76
EnterConnect(t, cont) ==
    /\ try_count' = [try_count EXCEPT ![t] = 1]
    /\ log' = [log EXCEPT ![t] = <<>>]
    /\ connRet' = [connRet EXCEPT ![t] = cont]
    /\ pc' = [pc EXCEPT ![t] = "conn_loop"]

Env == <<masterUp, backupUp, sessOk>>
Fields == <<current_connection, service_name>>
Static == <<cfg, callers, methods>>

\* ---------------------------------------------------------------- connect()
\* a connect loop that gives up once master and backup have both been tried
LoopContinues_GivesUp(cc, tc) == cc = None /\ tc <= cfg.R

\* line 77: while not self.current_connection
LoopContinues(cc, tc) == cc = None

\* lines 78-83: which endpoint the attempt number tc goes to
TargetOf(tc) == IF tc >= cfg.R THEN "backup" ELSE "master"

\* line 77, and the return of connect() to its caller
ConnLoop(t) ==
    LET exit == ~LoopContinues(current_connection, try_count[t])
        cont == connRet[t]
    IN  /\ pc[t] = "conn_loop"
        /\ pc' = [pc EXCEPT ![t] =
                    IF ~exit THEN "conn_try"
                    ELSE IF cont = "init" THEN "idle"
                    ELSE IF cont = "chk" THEN "chk_after"
                    ELSE IF op[t] = "exists" THEN "chk_read"
                    ELSE "op_call"]
        /\ constructed' = (constructed \/ (exit /\ cont = "init"))
        /\ op' = [op EXCEPT ![t] = IF exit /\ cont = "init" THEN "none" ELSE @]
        /\ inLs' = [inLs EXCEPT ![t] =
                      IF exit /\ cont = "op" /\ op[t] = "exists" THEN TRUE ELSE @]
        /\ connRet' = [connRet EXCEPT ![t] = IF exit THEN "none" ELSE @]
        /\ lastRet' = IF exit /\ cont = "init"
                      THEN [NoRet EXCEPT !.caller = t, !.op = "init", !.value = "None"]
                      ELSE NoRet
        /\ UNCHANGED <<Static, leaked, Env, Fields, try_count, chkBranch, chkRet, log,
                       verified, calls, args>>

\* line 87: try_count += 1; counts above MaxTry are not told apart, all of
\* them are >= reconnect_attempts
Incr(tc) == IF tc <= MaxTry THEN tc + 1 ELSE tc

\* the attempts on record: the first MaxTry - 1 and the latest one
Record(l, entry) ==
    IF Len(l) < MaxTry THEN Append(l, entry) ELSE [l EXCEPT ![MaxTry] = entry]

\* __connect_master / __connect_backup up to the binding of line 51 / 67:
\* open, authenticate and list the share's root; any exception is logged.
\* A connection object that was opened and is not bound, and one that is
\* overwritten by the binding, is never closed by the code; whether the
\* runtime collects and closes it is not determined
ConnTry(t) ==
    LET node == TargetOf(try_count[t])
        ok == UpOf(node)
        entry == [target |-> node, ok |-> ok, mUp |-> masterUp]
    IN  /\ pc[t] = "conn_try"
        /\ log' = [log EXCEPT ![t] = Record(@, entry)]
        /\ \E opened \in (IF ok THEN {TRUE} ELSE BOOLEAN) :
           \E collected \in BOOLEAN :
              leaked' = ( \/ leaked
                          \/ (~ok /\ opened /\ ~collected)
                          \/ (ok /\ current_connection # None /\ ~collected) )
        /\ current_connection' =
               IF ok THEN [node |-> node, remote_name |-> HostOf(node)]
               ELSE current_connection
        /\ sessOk' = (ok \/ sessOk)
        /\ verified' = IF ok THEN [u \in Threads |-> u = t] ELSE verified
        /\ pc' = [pc EXCEPT ![t] = IF ok THEN "conn_bind" ELSE "conn_sleep"]
        /\ try_count' = [try_count EXCEPT ![t] = IF ok THEN @ ELSE Incr(@)]   \* line 87
        /\ lastRet' = NoRet
        /\ UNCHANGED <<Static, masterUp, backupUp, service_name, constructed, op,
                       inLs, connRet, chkBranch, chkRet, calls, args>>

\* a __connect_backup that was copied from __connect_master and still
\* stores the share of master
ConnBind_MasterShare(t) ==
    /\ pc[t] = "conn_bind"
    /\ service_name' = MasterShare
    /\ try_count' = [try_count EXCEPT ![t] = Incr(@)]
    /\ pc' = [pc EXCEPT ![t] = "conn_sleep"]
    /\ lastRet' = NoRet
    /\ UNCHANGED <<Static, leaked, Env, current_connection, constructed, op, inLs,
                   connRet, chkBranch, chkRet, log, verified, calls, args>>

\* line 52 / 68: self.service_name = ...service_name, then line 87
ConnBind(t) ==
    /\ pc[t] = "conn_bind"
    /\ service_name' = ShareOf(log[t][Len(log[t])].target)
    /\ try_count' = [try_count EXCEPT ![t] = Incr(@)]
    /\ pc' = [pc EXCEPT ![t] = "conn_sleep"]
    /\ lastRet' = NoRet
    /\ UNCHANGED <<Static, leaked, Env, current_connection, constructed, op, inLs, connRet,
                   chkBranch, chkRet, log, verified, calls, args>>

\* line 88: time.sleep(self.cfg.reconnect_wait_time)
ConnSleep(t) ==
    /\ pc[t] = "conn_sleep"
    /\ pc' = [pc EXCEPT ![t] = "conn_loop"]
    /\ lastRet' = NoRet
    /\ UNCHANGED <<Static, leaked, Env, Fields, constructed, op, inLs, try_count, connRet,
                   chkBranch, chkRet, log, verified, calls, args>>

\* ---------------------------------------------------------------- check_connection()
\* an exception raised on an absent current_connection (AttributeError)
ChkRaise(t) ==
    /\ Raise(t, "absent", calls[t])
    /\ UNCHANGED <<Static, leaked, Env, Fields, constructed>>

\* line 91: self.current_connection.remote_name.upper() == master host
ChkRead(t) ==
    /\ pc[t] = "chk_read"
    /\ IF current_connection = None THEN ChkRaise(t)
       ELSE /\ pc' = [pc EXCEPT ![t] =
                        IF Upper(current_connection.remote_name) = Upper(cfg.mhost)
                        THEN "chk_list" ELSE "chk_read2"]
            /\ chkBranch' = [chkBranch EXCEPT ![t] =
                        IF Upper(current_connection.remote_name) = Upper(cfg.mhost)
                        THEN "master" ELSE @]
            /\ lastRet' = NoRet
            /\ UNCHANGED <<Static, leaked, Env, Fields, constructed, op, inLs, try_count,
                           connRet, chkRet, log, verified, calls, args>>

\* line 101: the elif on the backup host; neither branch returns None
ChkRead2(t) ==
    /\ pc[t] = "chk_read2"
    /\ IF current_connection = None THEN ChkRaise(t)
       ELSE LET b == Upper(current_connection.remote_name) = Upper(cfg.bhost)
            IN  /\ pc' = [pc EXCEPT ![t] = IF b THEN "chk_list" ELSE "chk_done"]
                /\ chkBranch' = [chkBranch EXCEPT ![t] = IF b THEN "backup" ELSE @]
                /\ chkRet' = [chkRet EXCEPT ![t] = IF b THEN @ ELSE "None"]
                /\ lastRet' = NoRet
                /\ UNCHANGED <<Static, leaked, Env, Fields, constructed, op, inLs, try_count,
                               connRet, log, verified, calls, args>>

\* outcomes of listPath(share, "") on the bound connection: a usable session
\* lists the share of its own endpoint; another share may or may not be served
ListRootOutcomes(share) ==
    IF ~sessOk THEN {FALSE}
    ELSE IF share = ShareOf(current_connection.node) THEN {TRUE}
    ELSE {TRUE, FALSE}

\* lines 92-95 / 102-105: the root listing; an exception (also the one of an
\* absent current_connection) is caught
ChkList(t) ==
    /\ pc[t] = "chk_list"
    /\ \E ok \in IF current_connection = None THEN {FALSE}
                 ELSE ListRootOutcomes(ShareOf(chkBranch[t])) :
          /\ pc' = [pc EXCEPT ![t] = IF ok THEN "chk_done" ELSE "chk_inval"]
          /\ chkRet' = [chkRet EXCEPT ![t] = IF ok THEN "True" ELSE @]
          /\ verified' = [verified EXCEPT ![t] = ok]
    /\ lastRet' = NoRet
    /\ UNCHANGED <<Static, leaked, Env, Fields, constructed, op, inLs, try_count, connRet,
                   chkBranch, log, calls, args>>

\* an invalidation that does not reconnect
ChkInval_NoConnect(t) ==
    /\ pc[t] = "chk_inval"
    /\ current_connection' = None
    /\ verified' = [u \in Threads |-> FALSE]
    /\ pc' = [pc EXCEPT ![t] = "chk_after"]
    /\ lastRet' = NoRet
    /\ UNCHANGED <<Static, leaked, Env, service_name, constructed, op, inLs, try_count,
                   connRet, log, chkBranch, chkRet, calls, args>>

\* lines 96-97 / 106-107: self.current_connection = None; self.connect();
\* the connection that is dropped is not closed
ChkInval(t) ==
    /\ pc[t] = "chk_inval"
    /\ current_connection' = None
    /\ \E collected \in BOOLEAN :
          leaked' = (leaked \/ (current_connection # None /\ ~collected))
    /\ verified' = [u \in Threads |-> FALSE]
    /\ EnterConnect(t, "chk")
    /\ lastRet' = NoRet
    /\ UNCHANGED <<Static, Env, service_name, constructed, op, inLs, chkBranch,
                   chkRet, calls, args>>

\* lines 98-100 / 108-110
ChkAfter(t) ==
    /\ pc[t] = "chk_after"
    /\ chkRet' = [chkRet EXCEPT ![t] =
                    IF current_connection # None THEN "True" ELSE "False"]
    /\ pc' = [pc EXCEPT ![t] = "chk_done"]
    /\ try_count' = [try_count EXCEPT ![t] = 0]     \* connect()'s frame is gone
    /\ log' = [log EXCEPT ![t] = <<>>]
    /\ lastRet' = NoRet
    /\ UNCHANGED <<Static, leaked, Env, Fields, constructed, op, inLs, connRet,
                   chkBranch, verified, calls, args>>

\* ---------------------------------------------------------------- the public methods
\* the inputs of a call
ArgsOf(o) ==
    IF o = "ls" THEN [file_name : {0}, sort_order : SortOrders]
    ELSE IF o = "exists" THEN [file_name : FileNames, sort_order : {"desc"}]
    ELSE {NoArgs}

\* a move_file that goes to the protocol call without the health check
EntryPoint_MoveUnchecked(o) == IF o = "move" THEN "op_call" ELSE "chk_read"

\* lines 120, 135, 148, 164, 182, 198: every method starts in check_connection
EntryPoint(o) == "chk_read"

\* a caller invokes check_connection or a file operation
Call(t) ==
    /\ t \in callers
    /\ pc[t] = "idle"
    /\ constructed
    /\ \E o \in methods : \E a \in ArgsOf(o) :
          /\ op' = [op EXCEPT ![t] = o]
          /\ args' = [args EXCEPT ![t] = a]
          /\ pc' = [pc EXCEPT ![t] = EntryPoint(o)]
    /\ try_count' = [try_count EXCEPT ![t] = 0]
    /\ log' = [log EXCEPT ![t] = <<>>]
    /\ verified' = [verified EXCEPT ![t] = FALSE]
    /\ lastRet' = NoRet
    /\ UNCHANGED <<Static, leaked, Env, Fields, constructed, inLs, connRet, chkBranch,
                   chkRet, calls>>

\* the use of check_connection's result: line 120 (ls), lines 135-137, 148-149,
\* 164-165, 182-183, 198-199 (if not self.check_connection(): self.connect())
AfterCheck(t) ==
    /\ pc[t] = "chk_done"
    /\ IF op[t] = "check"
       THEN /\ Return(t, chkRet[t], <<>>, <<>>, "none", calls[t], NoBuffer)
            /\ UNCHANGED <<Static, leaked, Env, Fields, constructed>>
       ELSE IF op[t] = "ls" \/ inLs[t]
       THEN IF chkRet[t] = "True"
            THEN /\ pc' = [pc EXCEPT ![t] = "op_call"]
                 /\ lastRet' = NoRet
                 /\ UNCHANGED <<Static, leaked, Env, Fields, constructed, op, inLs, try_count,
                                connRet, chkBranch, chkRet, log, verified, calls, args>>
            ELSE /\ Raise(t, "unavailable", calls[t])      \* line 126
                 /\ UNCHANGED <<Static, leaked, Env, Fields, constructed>>
       ELSE IF chkRet[t] = "True"
            THEN /\ pc' = [pc EXCEPT ![t] =
                             IF op[t] = "exists" THEN "chk_read" ELSE "op_call"]
                 /\ inLs' = [inLs EXCEPT ![t] = (op[t] = "exists")]
                 /\ lastRet' = NoRet
                 /\ UNCHANGED <<Static, leaked, Env, Fields, constructed, op, try_count,
                                connRet, chkBranch, chkRet, log, verified, calls, args>>
            ELSE /\ EnterConnect(t, "op")
                 /\ lastRet' = NoRet
                 /\ UNCHANGED <<Static, leaked, Env, Fields, constructed, op, inLs, chkBranch,
                                chkRet, verified, calls, args>>

\* outcomes of a delegated protocol call on the bound connection
CallOutcomes == IF sessOk THEN {"ok", "logical"} ELSE {"transport"}

\* a download_bytes that logs the exception and hands back what it has
ValueOf_DownloadSwallows(o, out, listing, file_name) ==
    IF o = "download" THEN "buffer"
    ELSE IF out # "ok" THEN (IF o \in BoolOps THEN "False" ELSE "raise")
    ELSE IF o = "ls" THEN "list"
    ELSE IF o = "exists" THEN (IF FileInLs(listing, file_name) THEN "True" ELSE "False")
    ELSE "True"

\* what the method hands back after its delegated call
ValueOf(o, out, listing, file_name) ==
    IF out # "ok" THEN (IF o \in BoolOps THEN "False" ELSE "raise")
    ELSE IF o = "ls" THEN "list"
    ELSE IF o = "exists" THEN (IF FileInLs(listing, file_name) THEN "True" ELSE "False")
    ELSE IF o = "download" THEN "buffer"
    ELSE "True"

\* a delegated call whose every failure drops the connection
OpCall_InvalidatesOnError(t) ==
    /\ pc[t] = "op_call"
    /\ IF current_connection = None
       THEN Raise(t, "absent", calls[t]) /\ UNCHANGED current_connection
       ELSE \E out \in CallOutcomes :
            \E listing \in IF out = "ok" /\ op[t] \in {"ls", "exists"}
                           THEN Listings ELSE {<<>>} :
            \E n \in IF out = "ok" /\ op[t] = "download" THEN 0..MaxLen ELSE {0} :
               /\ Return(t, ValueOf(op[t], out, listing, args[t].file_name),
                         IF out = "ok" /\ op[t] = "ls"
                         THEN Ls(listing, args[t].sort_order) ELSE <<>>,
                         listing, IF out = "ok" THEN "none" ELSE out, calls[t] + 1,
                         BufferOf(op[t], out, n))
               /\ current_connection' = IF out = "ok" THEN current_connection ELSE None
    /\ UNCHANGED <<Static, leaked, Env, service_name, constructed>>

\* lines 121-124, 137, 150-154, 166-172, 184-188, 200-204: the delegated call
\* on self.current_connection with self.service_name, and the return
OpCall(t) ==
    /\ pc[t] = "op_call"
    /\ IF current_connection = None
       THEN Raise(t, "absent", calls[t])
       ELSE \E out \in CallOutcomes :
            \E listing \in IF out = "ok" /\ op[t] \in {"ls", "exists"}
                           THEN Listings ELSE {<<>>} :
            \E n \in IF out = "ok" /\ op[t] = "download" THEN 0..MaxLen ELSE {0} :
               Return(t, ValueOf(op[t], out, listing, args[t].file_name),
                      IF out = "ok" /\ op[t] = "ls"
                      THEN Ls(listing, args[t].sort_order) ELSE <<>>,
                      listing, IF out = "ok" THEN "none" ELSE out, calls[t] + 1,
                      BufferOf(op[t], out, n))
    /\ UNCHANGED <<Static, leaked, Env, Fields, constructed>>

\* ---------------------------------------------------------------- environment
MasterFlip ==
    /\ masterUp' = ~masterUp
    /\ sessOk' = IF masterUp /\ current_connection.node = "master" THEN FALSE ELSE sessOk
    /\ lastRet' = NoRet
    /\ UNCHANGED <<Static, leaked, backupUp, Fields, constructed, pc, op, inLs, try_count,
                   connRet, chkBranch, chkRet, log, verified, calls, args>>

BackupFlip ==
    /\ backupUp' = ~backupUp
    /\ sessOk' = IF backupUp /\ current_connection.node = "backup" THEN FALSE ELSE sessOk
    /\ lastRet' = NoRet
    /\ UNCHANGED <<Static, leaked, masterUp, Fields, constructed, pc, op, inLs, try_count,
                   connRet, chkBranch, chkRet, log, verified, calls, args>>

\* the bound connection breaks while its endpoint stays up
SessionDrop ==
    /\ current_connection # None
    /\ sessOk
    /\ sessOk' = FALSE
    /\ lastRet' = NoRet
    /\ UNCHANGED <<Static, leaked, masterUp, backupUp, Fields, constructed, pc, op, inLs,
                   try_count, connRet, chkBranch, chkRet, log, verified, calls, args>>

\* ---------------------------------------------------------------- specifications
Next ==
    \/ \E t \in Threads : Call(t)
    \/ \E t \in Threads : ConnLoop(t)
    \/ \E t \in Threads : ConnTry(t)
    \/ \E t \in Threads : ConnBind(t)
    \/ \E t \in Threads : ConnSleep(t)
    \/ \E t \in Threads : ChkRead(t)
    \/ \E t \in Threads : ChkRead2(t)
    \/ \E t \in Threads : ChkList(t)
    \/ \E t \in Threads : ChkInval(t)
    \/ \E t \in Threads : ChkAfter(t)
    \/ \E t \in Threads : AfterCheck(t)
    \/ \E t \in Threads : OpCall(t)
    \/ MasterFlip
    \/ BackupFlip
    \/ SessionDrop

\* two callers; the endpoints keep the state they start in
NextConc ==
    \/ \E t \in Threads : Call(t)
    \/ \E t \in Threads : ConnLoop(t)
    \/ \E t \in Threads : ConnTry(t)
    \/ \E t \in Threads : ConnBind(t)
    \/ \E t \in Threads : ConnSleep(t)
    \/ \E t \in Threads : ChkRead(t)
    \/ \E t \in Threads : ChkRead2(t)
    \/ \E t \in Threads : ChkList(t)
    \/ \E t \in Threads : ChkInval(t)
    \/ \E t \in Threads : ChkAfter(t)
    \/ \E t \in Threads : AfterCheck(t)
    \/ \E t \in Threads : OpCall(t)
    \/ SessionDrop

\* the connect cycle of __init__ alone, with endpoints that come and go
InitLive == InitFields /\ callers = {1} /\ methods = {}
NextLive ==
    \/ \E t \in Threads : ConnLoop(t)
    \/ \E t \in Threads : ConnTry(t)
    \/ \E t \in Threads : ConnBind(t)
    \/ \E t \in Threads : ConnSleep(t)
    \/ MasterFlip
    \/ BackupFlip

\* the constructing thread keeps running: every step of connect() that stays
\* possible is taken; nothing is assumed of the endpoints
SpecLive ==
    /\ InitLive
    /\ [][NextLive]_vars
    /\ WF_vars(\E t \in Threads : ConnLoop(t))
    /\ WF_vars(\E t \in Threads : ConnTry(t))
    /\ WF_vars(\E t \in Threads : ConnBind(t))
    /\ WF_vars(\E t \in Threads : ConnSleep(t))

\* one caller
Spec == Init /\ [][Next]_vars
\* two callers on one object
SpecConc == InitConc /\ [][NextConc]_vars

\* ---------------------------------------------------------------- properties
ConnPcs == {"conn_loop", "conn_try", "conn_bind", "conn_sleep"}

\* connect() of caller t has returned and its attempts are still on record
ConnectEnded(t) == pc[t] \notin ConnPcs /\ log[t] # <<>>

\* the first n attempts of the cycle went to master and failed
MasterFailedFirst(l, n) ==
    /\ Len(l) >= n
    /\ \A i \in 1..n : l[i].target = "master" /\ ~l[i].ok

\* C1: for every N < reconnect_attempts, a connect cycle whose first N attempts
\* against master fail and that finds master reachable at every later attempt
\* ends bound to master, and a connect cycle starts with try_count = 1
C1_MasterWithinAttempts ==
    \A t \in Threads :
       /\ \A n \in 0..(cfg.R - 1) :
             ( /\ ConnectEnded(t)
               /\ MasterFailedFirst(log[t], n)
               /\ \A i \in (n + 1)..Len(log[t]) : log[t][i].mUp )
             => (current_connection # None /\ current_connection.node = "master")
       /\ (pc[t] = "conn_loop" /\ log[t] = <<>>) => try_count[t] = 1

\* C2: the first attempt against backup is the one that follows exactly
\* reconnect_attempts failed attempts against master
C2_BackupAfterMaxMaster ==
    \A t \in Threads : \A i \in 1..Len(log[t]) :
       ( /\ log[t][i].target = "backup"
         /\ \A j \in 1..(i - 1) : log[t][j].target = "master" )
       => i = cfg.R + 1

\* C3: while every attempt of the cycle has failed, the caller stays inside
\* connect(): nothing is returned or raised, and the failed attempt is
\* followed by the wait and the next attempt
C3_NoFailureExit ==
    [][\A t \in Threads :
          ( /\ pc[t] \in ConnPcs
            /\ \A i \in 1..Len(log[t]) : ~log[t][i].ok
            /\ \A i \in 1..Len(log'[t]) : ~log'[t][i].ok )
          => ( /\ pc'[t] \in ConnPcs
               /\ lastRet' = NoRet
               /\ (pc[t] = "conn_sleep" => pc'[t] \in {"conn_sleep", "conn_loop"})
               /\ (pc[t] = "conn_loop" => pc'[t] \in {"conn_loop", "conn_try"}) )]_vars

\* a cycle that has failed against master and against backup and goes on
C3_Witness ==
    /\ pc[1] = "conn_try"
    /\ \E i \in 1..Len(log[1]) : log[1][i].target = "master"
    /\ \E i \in 1..Len(log[1]) : log[1][i].target = "backup"
    /\ \A i \in 1..Len(log[1]) : ~log[1][i].ok

\* C4: the attempt that follows a failed attempt against backup goes to master
C4_MasterAfterBackup ==
    \A t \in Threads : \A i \in 1..(Len(log[t]) - 1) :
       (log[t][i].target = "backup" /\ ~log[t][i].ok)
       => log[t][i + 1].target = "master"

\* C5: an upload whose delegated write fails with a transport failure
\* returns only after the write has been attempted a second time
C5_UploadRetriedOnce ==
    (lastRet.op = "upload" /\ lastRet.fail = "transport") => lastRet.calls = 2

\* C6: two callers are never both inside a connect cycle with attempts of
\* their own
C6_OneConnectCycle ==
    \A t, u \in Threads :
       (t # u /\ pc[t] \in ConnPcs /\ pc[u] \in ConnPcs)
       => (log[t] = <<>> \/ log[u] = <<>>)

\* C7: with one caller the object is never handed back disconnected: once
\* constructed, current_connection is present whenever the caller is outside a
\* call and whenever a call returns or raises; after an invalidation
\* check_connection reaches its return only with a new connection bound; and
\* check_connection never produces False or None
C7_NeverHandedBackDisconnected ==
    \A t \in callers :
       /\ (constructed /\ pc[t] = "idle") => current_connection # None
       /\ lastRet.op # "none" => current_connection # None
       /\ pc[t] \in {"chk_after", "chk_done"} => current_connection # None
       /\ chkRet[t] \in {"none", "True"}
       /\ (lastRet.op = "check" => lastRet.value = "True")

\* a failed health check of upload_bytes has been followed by a connect
\* cycle that ended on backup, and check_connection is about to return
C7_Witness ==
    /\ pc[1] = "chk_after"
    /\ op[1] = "upload"
    /\ current_connection # None
    /\ current_connection.node = "backup"

\* C8: a caller that is about to issue the delegated protocol call of a file
\* operation holds a connection that, earlier in this invocation, passed the
\* root listing of check_connection or was established by connect()
C8_CheckedBeforeDelegation ==
    \A t \in callers :
       /\ pc[t] = "op_call" => (verified[t] /\ current_connection # None)
       /\ (lastRet.caller = t /\ lastRet.calls > 0) => lastRet.op \in Ops \ {"check"}

\* move_file is about to rename on a connection that its own health check
\* re-established after an invalidation
C8_Witness ==
    /\ pc[1] = "op_call"
    /\ op[1] = "move"
    /\ verified[1]
    /\ current_connection.node = "backup"

\* position of the entry named name in listing l
IndexOf(l, name) == CHOOSE k \in 1..Len(l) : l[k].filename = name

\* C9: ls returns exactly the file names of the listing, by create_time
\* descending for 'desc' and ascending for 'asc'; entries of equal create_time
\* keep the order of the listing in both orders; create times 3,1,2 give the
\* entries 1,3,2 for 'desc' and 2,3,1 for 'asc'
C9_LsOrder ==
    (lastRet.op = "ls" /\ lastRet.value = "list") =>
        LET l == lastRet.listing
            f == lastRet.files
            desc == lastRet.sort_order = "desc"
        IN  /\ Len(f) = Len(l)
            /\ {f[i] : i \in 1..Len(f)} = {l[k].filename : k \in 1..Len(l)}
            /\ \A i, j \in 1..Len(f) :
                  i < j =>
                     LET a == IndexOf(l, f[i])
                         b == IndexOf(l, f[j])
                     IN  \/ (desc /\ l[a].create_time > l[b].create_time)
                         \/ (~desc /\ l[a].create_time < l[b].create_time)
                         \/ (l[a].create_time = l[b].create_time /\ a < b)
            /\ ( /\ Len(l) = 3
                 /\ l[1].create_time = 3 /\ l[2].create_time = 1
                 /\ l[3].create_time = 2 )
               => f = IF desc
                      THEN <<l[1].filename, l[3].filename, l[2].filename>>
                      ELSE <<l[2].filename, l[3].filename, l[1].filename>>

\* a descending ls of three entries of which the last two have the same,
\* newest create_time
C9_Witness ==
    /\ lastRet.op = "ls"
    /\ lastRet.value = "list"
    /\ lastRet.sort_order = "desc"
    /\ Len(lastRet.listing) = 3
    /\ lastRet.listing[2].create_time = lastRet.listing[3].create_time
    /\ lastRet.listing[1].create_time < lastRet.listing[2].create_time
    /\ lastRet.files = <<lastRet.listing[2].filename, lastRet.listing[3].filename,
                         lastRet.listing[1].filename>>

\* C10: check_file_in_directory returns True exactly when the file name is
\* an entry of the directory, that is an element of what ls returns for the
\* same listing, and False for an empty directory
C10_ExistsIffListed ==
    (lastRet.op = "exists" /\ lastRet.fail = "none" /\ lastRet.calls = 1) =>
        LET l == lastRet.listing
        IN  /\ lastRet.value \in {"True", "False"}
            /\ lastRet.value = "True" <=>
                  \E k \in 1..Len(l) : l[k].filename = lastRet.file_name
            /\ lastRet.value = "True" <=>
                  lastRet.file_name \in
                     {Ls(l, "desc")[i] : i \in 1..Len(Ls(l, "desc"))}
            /\ l = <<>> => lastRet.value = "False"

\* the file asked for is the oldest of three entries
C10_Witness ==
    /\ lastRet.op = "exists"
    /\ lastRet.value = "True"
    /\ Len(lastRet.listing) = 3
    /\ lastRet.listing[1].filename = lastRet.file_name
    /\ lastRet.listing[1].create_time < lastRet.listing[2].create_time
    /\ lastRet.listing[1].create_time < lastRet.listing[3].create_time

\* C11: download_bytes raises and hands back no buffer when the delegated
\* read fails, and hands back the whole file in a buffer positioned at its
\* start when the read succeeds, a zero-length buffer for an empty file;
\* upload_bytes, delete_file and move_file return False for a failed
\* delegated call and do not raise
C11_DownloadRaisesOthersReturnFalse ==
    /\ (lastRet.op = "download" /\ lastRet.fail # "none") =>
          (lastRet.value = "raise" /\ ~lastRet.buffer.present)
    /\ (lastRet.op = "download" /\ lastRet.fail = "none") =>
          /\ lastRet.value = "buffer"
          /\ lastRet.buffer.present
          /\ lastRet.buffer.len = lastRet.buffer.file_len
          /\ lastRet.buffer.pos = 0
    /\ (lastRet.op \in BoolOps /\ lastRet.fail # "none") => lastRet.value = "False"
    /\ (lastRet.op \in BoolOps /\ lastRet.fail = "none") => lastRet.value = "True"

\* the delegated read of download_bytes failed although the connection had
\* passed the health check
C11_Witness ==
    /\ lastRet.op = "download"
    /\ lastRet.fail = "logical"
    /\ lastRet.calls = 1
    /\ lastRet.value = "raise"

\* C12: a file operation does not come back from a transport failure of its
\* delegated call with the failed connection still bound: the connection has
\* been invalidated or replaced by a new connect cycle
C12_CallFailureInvalidates ==
    lastRet.fail = "transport" => (current_connection = None \/ sessOk)

\* C13: a logical failure of the delegated call is handed to the caller in
\* the same step, after that one call, with current_connection, service_name
\* and the set of open connections as they were and without a connect attempt
C13_LogicalFailureKeepsState ==
    [][\A t \in Threads :
          (lastRet'.caller = t /\ lastRet'.fail = "logical")
          => ( /\ pc[t] = "op_call"
               /\ pc'[t] = "idle"
               /\ lastRet'.calls = 1
               /\ current_connection # None
               /\ current_connection' = current_connection
               /\ service_name' = service_name
               /\ leaked' = leaked
               /\ log'[t] = <<>> )]_vars

\* delete_file has reported a logical failure on a usable backup connection
C13_Witness ==
    /\ lastRet.op = "delete"
    /\ lastRet.fail = "logical"
    /\ lastRet.value = "False"
    /\ current_connection # None
    /\ current_connection.node = "backup"
    /\ sessOk

\* C14: when master, or backup, becomes reachable and stays reachable, the
\* connect cycle of the constructor ends and __init__ returns
C14_ConnectsOnceReachable ==
    ((<>[]masterUp) \/ (<>[]backupUp)) => <>constructed

\* C15: for every reconnect_attempts >= 1 a connect cycle starts with
\* try_count = 1 and makes its first attempt against master
C15_CycleStartsAtMaster ==
    \A t \in Threads :
       /\ (pc[t] = "conn_loop" /\ log[t] = <<>>) => try_count[t] = 1
       /\ Len(log[t]) >= 1 => log[t][1].target = "master"

\* C16: no connection that was opened is left open once it is dropped or
\* replaced: the bound connection is the only open one
C16_AtMostOneOpen == ~leaked

\* C17: the root listing of the health check names the share of the endpoint
\* current_connection is bound to
C17_CheckListsBoundShare ==
    \A t \in Threads :
       (pc[t] = "chk_list" /\ current_connection # None)
       => chkBranch[t] = current_connection.node

\* C18: connect() waits only after an attempt that failed
C18_WaitOnlyAfterFailure ==
    \A t \in Threads :
       pc[t] = "conn_sleep" => ~log[t][Len(log[t])].ok

\* C19: with one caller, service_name is the share of the endpoint
\* current_connection is bound to whenever a delegated call is issued, and
\* whenever a connection is bound outside the two assignments of a connect
\* attempt
C19_ServiceNameMatchesConnection ==
    \A t \in callers :
       /\ pc[t] = "op_call" =>
             /\ current_connection # None
             /\ service_name = ShareOf(current_connection.node)
       /\ (pc[t] # "conn_bind" /\ current_connection # None) =>
             service_name = ShareOf(current_connection.node)

\* upload_bytes is about to store a file after its health check failed over
\* to backup
C19_Witness ==
    /\ pc[1] = "op_call"
    /\ op[1] = "upload"
    /\ leaked
    /\ current_connection.node = "backup"
    /\ service_name = BackupShare

\* C20: with two callers, no caller reaches a use of current_connection
\* while another caller's invalidation has it absent, and no call ends in
\* the exception of a use of an absent current_connection
DerefPcs == {"chk_read", "chk_read2", "chk_list", "op_call"}
C20_NoAbsentDereference ==
    /\ \A t \in callers : pc[t] \in DerefPcs => current_connection # None
    /\ lastRet.fail # "absent"

====
